---- MODULE Spec2Model ----
(***************************************************************************)
(* A model of pseudoexperiments.py: the Poisson mean model, the negative   *)
(* log likelihood (full and restricted), the pseudoexperiment generator    *)
(* with its two random streams, the two fit functions around the external  *)
(* minimizer, generate_one_fit, and the __main__ block.                    *)
(*                                                                         *)
(* Numbers.  A Python number is a record [t, v, np]:                       *)
(*   t  = "fin" (finite, v is the value in units of 1/Scale), "inf",       *)
(*        "ninf", "nan", "None", or the name of the exception the          *)
(*        expression that should have produced it raised;                  *)
(*   np = TRUE for a numpy.float64 scalar (the elements of the array the   *)
(*        minimizer passes), FALSE for a Python int or float.              *)
(* Arithmetic rounds to the nearest unit.  Zero is unsigned.               *)
(***************************************************************************)
EXTENDS Integers, Sequences, FiniteSets, TLC

\* Resolution of the fixed-point numbers: 1.0 is Scale units.
Scale == 1000

Abs(n) == IF n < 0 THEN -n ELSE n
Sgn(n) == IF n < 0 THEN -1 ELSE IF n > 0 THEN 1 ELSE 0
Min(m, n) == IF m <= n THEN m ELSE n

\* n / d rounded to the nearest integer, halves away from zero (d # 0).
RDiv(n, d) == Sgn(n) * Sgn(d) * ((Abs(n) + Abs(d) \div 2) \div Abs(d))

\* The decimal number n / den, in units of 1/Scale.
Dec(n, den) == RDiv(n * Scale, den)

Errors == {"ZeroDivisionError", "ValueError", "OverflowError", "TypeError"}

Num(t, v, np) == [t |-> t, v |-> v, np |-> np]
Py(v) == Num("fin", v, FALSE)          \* a Python float or int
NpF(v) == Num("fin", v, TRUE)          \* a numpy.float64
PyInt(n) == Py(n * Scale)              \* the Python int n
None == Num("None", 0, FALSE)          \* Python's None
Raise(e) == Num(e, 0, FALSE)           \* the expression raised e
IsErr(x) == x.t \in Errors
IsNone(x) == x.t = "None"
IsFinite(x) == x.t = "fin"
IsZero(x) == x.t = "fin" /\ x.v = 0
\* The sign of a number that is neither nan nor an exception.
SignOf(x) == IF x.t = "inf" THEN 1 ELSE IF x.t = "ninf" THEN -1 ELSE Sgn(x.v)
Signed(s, np) == Num(IF s < 0 THEN "ninf" ELSE "inf", 0, np)

\* -x
Neg(x) ==
    IF IsNone(x) THEN Raise("TypeError")
    ELSE IF IsErr(x) \/ x.t = "nan" THEN x
    ELSE IF x.t = "inf" THEN Num("ninf", 0, x.np)
    ELSE IF x.t = "ninf" THEN Num("inf", 0, x.np)
    ELSE Num("fin", -x.v, x.np)

\* x + y; the left operand is evaluated first, so its exception wins.
Add(x, y) ==
    LET np == x.np \/ y.np IN
    IF IsErr(x) THEN x
    ELSE IF IsErr(y) THEN y
    ELSE IF IsNone(x) \/ IsNone(y) THEN Raise("TypeError")
    ELSE IF x.t = "nan" \/ y.t = "nan" THEN Num("nan", 0, np)
    ELSE IF x.t = "fin" /\ y.t = "fin" THEN Num("fin", x.v + y.v, np)
    ELSE IF x.t = "fin" THEN Num(y.t, 0, np)
    ELSE IF y.t = "fin" \/ y.t = x.t THEN Num(x.t, 0, np)
    ELSE Num("nan", 0, np)

\* x - y
Sub(x, y) == Add(x, Neg(y))

\* x * y
Mul(x, y) ==
    LET np == x.np \/ y.np IN
    IF IsErr(x) THEN x
    ELSE IF IsErr(y) THEN y
    ELSE IF IsNone(x) \/ IsNone(y) THEN Raise("TypeError")
    ELSE IF x.t = "nan" \/ y.t = "nan" THEN Num("nan", 0, np)
    ELSE IF x.t = "fin" /\ y.t = "fin" THEN Num("fin", RDiv(x.v * y.v, Scale), np)
    ELSE IF IsZero(x) \/ IsZero(y) THEN Num("nan", 0, np)
    ELSE Signed(SignOf(x) * SignOf(y), np)

\* x / y.  Two Python numbers raise ZeroDivisionError on a zero divisor; with a
\* numpy.float64 on either side the division follows IEEE 754 (inf or nan and
\* a RuntimeWarning, no exception).
Div(x, y) ==
    LET np == x.np \/ y.np IN
    IF IsErr(x) THEN x
    ELSE IF IsErr(y) THEN y
    ELSE IF IsNone(x) \/ IsNone(y) THEN Raise("TypeError")
    ELSE IF IsZero(y) /\ ~np THEN Raise("ZeroDivisionError")
    ELSE IF x.t = "nan" \/ y.t = "nan" THEN Num("nan", 0, np)
    ELSE IF IsZero(y) THEN
        IF IsZero(x) THEN Num("nan", 0, np) ELSE Signed(SignOf(x), np)
    ELSE IF x.t = "fin" /\ y.t = "fin" THEN Num("fin", RDiv(x.v * Scale, y.v), np)
    ELSE IF x.t = "fin" THEN Num("fin", 0, np)
    ELSE IF y.t = "fin" THEN Signed(SignOf(x) * SignOf(y), np)
    ELSE Num("nan", 0, np)

\* x ** 2
Pow2(x) == Mul(x, x)

\* exp(-1), ..., exp(-14) in millionths; exp(-n) rounds to 0 beyond.
ExpTable ==
    <<367879, 135335, 49787, 18316, 6738, 2479, 912, 335, 123, 45, 17, 6, 2, 1>>

\* The alternating series 1 - f + f^2/2! - ... of exp(-f), 0 <= f < 1: the
\* terms from the i-th on, `term` being the (i-1)-th.
RECURSIVE ExpSeries(_, _, _)
ExpSeries(f, term, i) ==
    LET next == RDiv(term * f, i * Scale) IN
    IF next = 0 THEN 0
    ELSE (IF i % 2 = 1 THEN -next ELSE next) + ExpSeries(f, next, i + 1)

\* exp(-u) for u >= 0, both in units of 1/Scale.
ExpNeg(u) ==
    LET n == u \div Scale
        frac == Scale + ExpSeries(u % Scale, Scale, 1)
    IN IF n = 0 THEN frac
       ELSE IF n > Len(ExpTable) THEN 0
       ELSE RDiv(ExpTable[n] * frac, 1000000)

\* math.exp(x): a Python float.  The model's exponents are never positive
\* (b >= 0 on every grid), so exp of a positive finite number is left out.
Exp(x) ==
    IF IsErr(x) THEN x
    ELSE IF IsNone(x) THEN Raise("TypeError")
    ELSE IF x.t = "nan" \/ x.t = "inf" THEN Num(x.t, 0, FALSE)
    ELSE IF x.t = "ninf" THEN Py(0)
    ELSE CASE x.v <= 0 -> Py(ExpNeg(-x.v))

\* ln 2
Ln2 == RDiv(693147 * Scale, 1000000)

\* 2 * artanh(z) = 2 (z + z^3/3 + z^5/5 + z^7/7), the logarithm of
\* (1 + z) / (1 - z), for 0 <= z <= 1/3.
LnSeries(z) ==
    LET z2 == RDiv(z * z, Scale)
        z3 == RDiv(z * z2, Scale)
        z5 == RDiv(z3 * z2, Scale)
        z7 == RDiv(z5 * z2, Scale)
    IN 2 * (z + RDiv(z3, 3) + RDiv(z5, 5) + RDiv(z7, 7))

\* ln(v / Scale) + acc for v > 0, halving or doubling v into [1, 2).
RECURSIVE Ln(_, _)
Ln(v, acc) ==
    IF v >= 2 * Scale THEN Ln(RDiv(v, 2), acc + Ln2)
    ELSE IF v < Scale THEN Ln(2 * v, acc - Ln2)
    ELSE acc + LnSeries(RDiv((v - Scale) * Scale, v + Scale))

\* math.log(x): ValueError (math domain error) unless x > 0 or x is nan.
Log(x) ==
    IF IsErr(x) THEN x
    ELSE IF IsNone(x) THEN Raise("TypeError")
    ELSE IF x.t = "nan" \/ x.t = "inf" THEN Num(x.t, 0, FALSE)
    ELSE IF x.t = "ninf" \/ x.v <= 0 THEN Raise("ValueError")
    ELSE Py(Ln(x.v, 0))

\* math.log(numpy.math.factorial(d)) for a count d >= 0.  The factorial is
\* an exact integer of any size; its logarithm is the sum of the logarithms
\* of 2..d, which is how it is computed here.
RECURSIVE LogFactorial(_)
LogFactorial(d) ==
    IF d <= 1 THEN Py(0) ELSE Add(LogFactorial(d - 1), Py(Ln(d * Scale, 0)))

(***************************************************************************)
(* Module data.                                                            *)
(***************************************************************************)
\* The values used for generating pseudoexperiments.
A == Py(Dec(1026, 100))
dA == Py(Dec(3, 10))
B == Py(Dec(516, 100))
dB == Py(Dec(1, 10))
C == Py(Dec(331, 100))
dC == Py(Dec(6, 10))
D == Py(Dec(76, 100))
dD == Py(Dec(4, 100))

\* The number of bins in the energy spectra.
N_b == 20

\* The experiment's observed energy spectrum.
OBS == <<7, 4, 4, 3, 4, 6, 5, 3, 6, 5, 4, 1, 3, 0, 1, 1, 2, 0, 1, 0>>

(***************************************************************************)
(* The Poisson mean model and the likelihood.                              *)
(***************************************************************************)
\* poisson_mean_model with the operands of the background's exponent
\* exchanged: exp(-b / k).
poisson_mean_model_swapped(a, b, c, d, mass, delta, k) ==
    LET background == Add(Mul(a, Exp(Div(Neg(b), PyInt(k)))), d)
        signal ==
            Mul(Div(c, delta),
                Exp(Mul(Py(-Dec(5, 10)), Pow2(Div(Sub(PyInt(k), mass), delta)))))
    IN Add(background, signal)

\* poisson_mean_model(a, b, c, d, mass, delta, k): the mean of bin k.
poisson_mean_model(a, b, c, d, mass, delta, k) ==
    LET background == Add(Mul(a, Exp(Div(PyInt(-k), b))), d)
        signal ==
            Mul(Div(c, delta),
                Exp(Mul(Py(-Dec(5, 10)), Pow2(Div(Sub(PyInt(k), mass), delta)))))
    IN Add(background, signal)

\* The first exception of a list of numbers, in list order; None if there is none.
FirstError(xs) ==
    IF \E i \in 1..Len(xs) : IsErr(xs[i])
    THEN xs[CHOOSE i \in 1..Len(xs) :
                IsErr(xs[i]) /\ \A j \in 1..(i - 1) : ~IsErr(xs[j])]
    ELSE None

\* sum(xs) of the first n elements: 0 + xs[1] + ... + xs[n].
RECURSIVE SumList(_, _)
SumList(xs, n) == IF n = 0 THEN PyInt(0) ELSE Add(SumList(xs, n - 1), xs[n])

\* zip(xs, ys) with the counts padded with zeros to the length of xs.
ZipPadded(xs, ys) ==
    [i \in 1..Len(xs) |-> <<xs[i], IF i <= Len(ys) THEN ys[i] ELSE 0>>]

\* zip(xs, ys): pairs up to the end of the shorter sequence.
Zip(xs, ys) == [i \in 1..Min(Len(xs), Len(ys)) |-> <<xs[i], ys[i]>>]

\* mu - d * math.log(mu) + math.log(numpy.math.factorial(d))
BinTerm(mu, d) == Add(Sub(mu, Mul(PyInt(d), Log(mu))), LogFactorial(d))

\* The two list comprehensions and the sum that end both methods: the
\* comprehension over the bin means raises first, bin by bin, then the one
\* over the zipped pairs.
SumOverBins(bin_poisson_means, data) ==
    LET pairs == Zip(bin_poisson_means, data)
        bin_log_likelihoods ==
            [i \in 1..Len(pairs) |-> BinTerm(pairs[i][1], pairs[i][2])]
    IN IF FirstError(bin_poisson_means) # None THEN FirstError(bin_poisson_means)
       ELSE IF FirstError(bin_log_likelihoods) # None
            THEN FirstError(bin_log_likelihoods)
       ELSE SumList(bin_log_likelihoods, Len(bin_log_likelihoods))

\* LogLike.__init__(self, data, mass=None, delta=None)
LogLike(data, mass, delta) == [data |-> data, mass |-> mass, delta |-> delta]

\* LogLike.restricted with self.mass and self.delta exchanged.
restricted_exchanged(self, a, b, c, d) ==
    SumOverBins(
        [k \in 1..N_b |-> poisson_mean_model(a, b, c, d, self.delta, self.mass, k)],
        self.data)

\* LogLike.restricted(self, a, b, c, d)
restricted(self, a, b, c, d) ==
    SumOverBins(
        [k \in 1..N_b |-> poisson_mean_model(a, b, c, d, self.mass, self.delta, k)],
        self.data)

\* LogLike.negative_log_likelihood(self, a, b, c, d, mass, delta)
negative_log_likelihood(self, a, b, c, d, mass, delta) ==
    SumOverBins(
        [k \in 1..N_b |-> poisson_mean_model(a, b, c, d, mass, delta, k)],
        self.data)

\* LogLike.__call__(self, x): x is the minimizer's array of six numbers.
LogLike_call(self, x) ==
    negative_log_likelihood(self, x[1], x[2], x[3], x[4], x[5], x[6])

\* LogLike.restricted_np(self, x): x is the minimizer's array of four numbers.
restricted_np(self, x) == restricted(self, x[1], x[2], x[3], x[4])

(***************************************************************************)
(* The two random streams.  Each generator is a short-period congruential  *)
(* generator standing for the library's one: its state after a draw, and   *)
(* the variate drawn, are functions of its state before the draw.          *)
(***************************************************************************)
\* The periods of the two model generators.
GaussPeriod == 8
PoissonPeriod == 8

\* random.seed(137) and default_rng(12345)
SeedPython == 137
SeedNumpy == 12345

\* The generator's next state.
Advance(s, period) == (5 * s + 3) % period

\* Standard normal deviates, in tenths, by generator state: mostly within
\* two standard deviations, one far in the lower tail.
ZTable == <<3, -5, 12, 8, -10, 0, 16, -85, -3>>

\* random.normalvariate(mu, sigma) in state s: the variate.
normalvariate(mu, sigma, s) ==
    Add(mu, Mul(Py(Dec(ZTable[(s % Len(ZTable)) + 1], 10)), sigma))

\* The Poisson variate minus its rounded mean, by generator state.
OffsetTable == <<0, 1, -1, 0, 2, -2, 1, 0, -1>>

\* np_rng.poisson(lam) in state s: [ret, exc, s], the count or the exception,
\* and the state left.  A negative or nan mean raises ValueError and a zero
\* mean returns 0, both without drawing.
poisson(lam, s) ==
    IF lam.t # "fin" \/ lam.v < 0
    THEN [ret |-> 0, exc |-> "ValueError", s |-> s]
    ELSE IF lam.v = 0 THEN [ret |-> 0, exc |-> "", s |-> s]
    ELSE LET n == RDiv(lam.v, Scale) + OffsetTable[(s % Len(OffsetTable)) + 1]
         IN [ret |-> IF n < 0 THEN 0 ELSE n,
             exc |-> "",
             s |-> Advance(s, PoissonPeriod)]

\* One draw in the log of a call (a normalvariate or poisson call that
\* returned): the stream and what was drawn for.
Draw(stream, what) == [stream |-> stream, what |-> what]

\* The list comprehension over current_means from bin k on: the counts so
\* far, the draws so far, and the exception that ended it, if one did.
RECURSIVE PoissonLoop(_, _, _, _, _)
PoissonLoop(current_means, k, s, counts, draws) ==
    IF k > Len(current_means)
    THEN [ret |-> counts, exc |-> "", np_rng |-> s, draws |-> draws]
    ELSE LET one == poisson(current_means[k], s) IN
         IF one.exc # ""
         THEN [ret |-> <<>>, exc |-> one.exc, np_rng |-> one.s, draws |-> draws]
         ELSE PoissonLoop(current_means, k + 1, one.s, Append(counts, one.ret),
                          Append(draws, Draw("poisson", k)))

\* generate_pseudoexperiment(m, Delta) with the streams in states g and p:
\* [ret, exc, pyrand, np_rng, draws]: the counts returned or the exception
\* raised, the streams' states left, and the draws taken, in order.
generate_pseudoexperiment(m, Delta, g, p) ==
    LET g1 == Advance(g, GaussPeriod)
        g2 == Advance(g1, GaussPeriod)
        g3 == Advance(g2, GaussPeriod)
        g4 == Advance(g3, GaussPeriod)
        current_A == normalvariate(A, dA, g)
        current_B == normalvariate(B, dB, g1)
        current_C == normalvariate(C, dC, g2)
        current_D == normalvariate(D, dD, g3)
        gauss_draws == <<Draw("gauss", "A"), Draw("gauss", "B"),
                         Draw("gauss", "C"), Draw("gauss", "D")>>
        current_means ==
            [k \in 1..N_b |->
                poisson_mean_model(current_A, current_B, current_C, current_D,
                                   m, Delta, k)]
        loop == PoissonLoop(current_means, 1, p, <<>>, gauss_draws)
    IN IF FirstError(current_means) # None
       THEN [ret |-> <<>>, exc |-> FirstError(current_means).t,
             pyrand |-> g4, np_rng |-> p, draws |-> gauss_draws]
       ELSE [ret |-> loop.ret, exc |-> loop.exc,
             pyrand |-> g4, np_rng |-> loop.np_rng, draws |-> loop.draws]

(***************************************************************************)
(* The program's state.                                                    *)
(***************************************************************************)
VARIABLES
    pc,         \* where the run is: the __main__ block's position when the file
                \* is run as a script, the caller's when it is imported
    exc,        \* the exception that ended the run, "" if none
    pyrand,     \* the state of the random module's generator
    np_rng,     \* the state of np_rng
    minimizer,  \* the scipy.optimize.minimize call in progress
    best_fit,   \* __main__'s best_fit
    p_fit,      \* __main__'s p_fit
    stdout,     \* what was printed
    trials,     \* the generate_one_fit calls so far
    one_fit,    \* what the last generate_one_fit call returned
    fitlog,     \* the fits started so far: which objective, on which data
    run2,       \* a second run of the generator alone, from the same seeds
    obj,        \* a LogLike object held by a caller of the module
    rcall,      \* its last call of restricted
    fcall,      \* its last call of negative_log_likelihood
    margs,      \* the arguments of a call of poisson_mean_model, bin aside
    means       \* the means it returned for the bins 1..N_b

progVars ==
    <<pc, exc, pyrand, np_rng, minimizer, best_fit, p_fit, stdout, trials,
      one_fit, fitlog, run2>>
objVars == <<obj, rcall, fcall>>
meanVars == <<margs, means>>
vars == <<progVars, objVars, meanVars>>

\* The number of objective evaluations the minimizer makes after the one at
\* the initial guess, the number of generate_one_fit calls of a run, and the
\* lengths of the datasets shorter and longer than N_b.
MaxEvals == 2
MaxTrials == 2
ShortLen == 3
ExtraLen == 2

\* A decimal as a numpy.float64 and as a Python float.
N(tenths) == NpF(Dec(tenths, 10))
F(tenths) == Py(Dec(tenths, 10))

\* numpy.array([10.0, 5.0, 3.0, 1.0, 8.0, 2.0])
initial_guess == <<N(100), N(50), N(30), N(10), N(80), N(20)>>

\* The points the minimizer may try after the initial guess: a point of the
\* valid domain, and points with b = 0, with delta = 0, and with a negative
\* offset d that makes the means of the last bins negative.
TrialPoints ==
    { <<NpF(A.v), NpF(B.v), NpF(C.v), NpF(D.v), N(80), N(20)>>,
      <<N(100), N(0), N(30), N(10), N(80), N(20)>>,
      <<N(100), N(50), N(30), N(10), N(80), N(0)>>,
      <<N(100), N(50), N(30), N(-10), N(80), N(20)>> }

\* The locations (mass, delta) pseudoexperiments are generated at.
Locations == { <<F(80), F(20)>>, <<F(80), F(5)>> }

NoResult == [success |-> FALSE, x |-> <<>>, fun |-> None, nfev |-> 0]
NoMinimizer ==
    [active |-> FALSE, restricted |-> FALSE, loglike |-> LogLike(<<>>, None, None),
     x |-> <<>>, fun |-> None, nfev |-> 0, last |-> <<>>, lastfun |-> None]
NoCall == [called |-> FALSE]

\* The state after the module's top level has run, the __main__ block aside:
\* both generators seeded, nothing fitted.  pc = "main" when the file is run
\* as a script, "idle" when it was imported and its functions are called.
InitProg(start) ==
    /\ pc = start
    /\ exc = ""
    /\ pyrand = SeedPython % GaussPeriod
    /\ np_rng = SeedNumpy % PoissonPeriod
    /\ minimizer = NoMinimizer
    /\ best_fit = NoResult
    /\ p_fit = NoResult
    /\ stdout = <<>>
    /\ trials = <<>>
    /\ one_fit = NoResult
    /\ fitlog = <<>>
    /\ run2 = [pyrand |-> SeedPython % GaussPeriod,
               np_rng |-> SeedNumpy % PoissonPeriod,
               spectra |-> <<>>]
InitObj == obj = LogLike(<<>>, None, None) /\ rcall = NoCall /\ fcall = NoCall
InitMean == margs = <<>> /\ means = <<>>

Init == (\E start \in {"main", "idle"} : InitProg(start)) /\ InitObj /\ InitMean

(***************************************************************************)
(* The fits.  scipy.optimize.minimize is the external minimizer: it        *)
(* evaluates the objective at the initial guess, then at points of its     *)
(* choosing, and returns the best point it evaluated with a success flag.  *)
(* An exception the objective raises passes through it to the caller.      *)
(***************************************************************************)
\* A fit step that takes a draw from the random module's stream.
FitStreamsDrawn == pyrand' = Advance(pyrand, GaussPeriod) /\ UNCHANGED np_rng

\* Neither fit function, nor the objective the minimizer evaluates, draws
\* from either stream.
FitStreams == UNCHANGED <<pyrand, np_rng>>

\* What is left of the minimizer's array in a restricted fit.
PointOf(restr, pt) == IF restr THEN SubSeq(pt, 1, 4) ELSE pt

\* The objective handed to minimize: loglike or loglike.restricted_np.
Objective(restr, loglike, x) ==
    IF restr THEN restricted_np(loglike, x) ELSE LogLike_call(loglike, x)

\* minimize(objective, initial_guess) begins.
StartMinimize(restr, loglike) ==
    /\ minimizer' = [NoMinimizer EXCEPT !.active = TRUE, !.restricted = restr,
                                        !.loglike = loglike]
    /\ fitlog' = Append(fitlog, [restricted |-> restr, data |-> loglike.data,
                                 mass |-> loglike.mass, delta |-> loglike.delta])

\* fit_given_data(data)
fit_given_data(data) == StartMinimize(FALSE, LogLike(data, None, None))

\* fit_given_data_at_location(mass, delta, data)
fit_given_data_at_location(mass, delta, data) ==
    StartMinimize(TRUE, LogLike(data, mass, delta))

\* An exception leaves the function in progress: nothing in the file catches
\* it, so it ends the run with a traceback.
Uncaught(e) ==
    /\ exc' = e
    /\ pc' = IF pc = "one_fit" THEN "crashed" ELSE "failed"
    /\ trials' = IF pc = "one_fit"
                 THEN [trials EXCEPT ![Len(trials)].status = "raised",
                                     ![Len(trials)].exc = e]
                 ELSE trials

\* The minimizer evaluates the objective at pt.
Evaluate(pt) ==
    /\ minimizer.active
    /\ minimizer.nfev <= MaxEvals
    /\ IF minimizer.nfev = 0 THEN pt = initial_guess ELSE pt \in TrialPoints
    /\ LET x == PointOf(minimizer.restricted, pt)
           fun == Objective(minimizer.restricted, minimizer.loglike, x)
           better == \/ minimizer.nfev = 0
                     \/ /\ IsFinite(fun)
                        /\ ~IsFinite(minimizer.fun) \/ fun.v < minimizer.fun.v
       IN IF IsErr(fun)
          THEN /\ minimizer' = [minimizer EXCEPT !.active = FALSE, !.last = x,
                                                 !.lastfun = fun,
                                                 !.nfev = minimizer.nfev + 1]
               /\ Uncaught(fun.t)
          ELSE /\ minimizer' = [minimizer EXCEPT
                                   !.last = x, !.lastfun = fun,
                                   !.nfev = minimizer.nfev + 1,
                                   !.x = IF better THEN x ELSE minimizer.x,
                                   !.fun = IF better THEN fun ELSE minimizer.fun]
               /\ UNCHANGED <<pc, exc, trials>>
    /\ FitStreams
    /\ UNCHANGED <<best_fit, p_fit, stdout, one_fit, fitlog, run2, objVars, meanVars>>

\* minimize returns its OptimizeResult, and the fit function returns it to
\* its caller: __main__ (best_fit, then p_fit) or generate_one_fit.
Return(success) ==
    /\ minimizer.active
    /\ minimizer.nfev >= 1
    /\ LET fit_result == [success |-> success, x |-> minimizer.x,
                          fun |-> minimizer.fun, nfev |-> minimizer.nfev]
       IN /\ best_fit' = IF pc = "best_fit" THEN fit_result ELSE best_fit
          /\ p_fit' = IF pc = "p_fit" THEN fit_result ELSE p_fit
          /\ one_fit' = IF pc = "one_fit" THEN fit_result ELSE one_fit
    /\ trials' = IF pc = "one_fit"
                 THEN [trials EXCEPT ![Len(trials)].status = "returned"]
                 ELSE trials
    /\ pc' = CASE pc = "best_fit" -> "assert"
               [] pc = "p_fit" -> "print"
               [] pc = "one_fit" -> "idle"
    /\ minimizer' = [minimizer EXCEPT !.active = FALSE]
    /\ FitStreams
    /\ UNCHANGED <<exc, stdout, fitlog, run2, objVars, meanVars>>

(***************************************************************************)
(* The __main__ block.                                                     *)
(***************************************************************************)
\* best_fit = fit_given_data(OBS)
MainBestFit ==
    /\ pc = "main"
    /\ fit_given_data(OBS)
    /\ pc' = "best_fit"
    /\ UNCHANGED <<exc, pyrand, np_rng, best_fit, p_fit, stdout, trials, one_fit,
                   run2, objVars, meanVars>>

\* The same lines with the assert statement removed, as under python -O.
MainAssertStripped ==
    /\ pc = "assert"
    /\ pc' = "located"
    /\ UNCHANGED <<exc, pyrand, np_rng, minimizer, best_fit, p_fit, stdout, trials,
                   one_fit, fitlog, run2, objVars, meanVars>>

\* assert best_fit.success; then lambda_best, params_best and m_p, Delta_p
\* are set.  A failed assertion raises AssertionError.
MainAssert ==
    /\ pc = "assert"
    /\ IF best_fit.success
       THEN pc' = "located" /\ exc' = exc
       ELSE pc' = "failed" /\ exc' = "AssertionError"
    /\ UNCHANGED <<pyrand, np_rng, minimizer, best_fit, p_fit, stdout, trials,
                   one_fit, fitlog, run2, objVars, meanVars>>

\* m_p, Delta_p = 8.0, 2.0
m_p == F(80)
Delta_p == F(20)

\* p_fit = fit_given_data_at_location(m_p, Delta_p, OBS)
MainFitAtLocation ==
    /\ pc = "located"
    /\ fit_given_data_at_location(m_p, Delta_p, OBS)
    /\ pc' = "p_fit"
    /\ UNCHANGED <<exc, pyrand, np_rng, best_fit, p_fit, stdout, trials, one_fit,
                   run2, objVars, meanVars>>

\* print(p_fit), and the script ends.
MainPrint ==
    /\ pc = "print"
    /\ stdout' = Append(stdout, p_fit)
    /\ pc' = "exit"
    /\ UNCHANGED <<exc, pyrand, np_rng, minimizer, best_fit, p_fit, trials, one_fit,
                   fitlog, run2, objVars, meanVars>>

(***************************************************************************)
(* generate_one_fit, called by the importer of the module, one trial after *)
(* the other.  The second run makes the same generate_pseudoexperiment     *)
(* call from its own streams at the same step, and no other call.          *)
(***************************************************************************)
\* generate_one_fit(m, Delta): pe = generate_pseudoexperiment(m, Delta), then
\* fit = fit_given_data(pe), which the minimizer's steps continue.
generate_one_fit(m, Delta) ==
    /\ pc = "idle"
    /\ Len(trials) < MaxTrials
    /\ LET pe == generate_pseudoexperiment(m, Delta, pyrand, np_rng)
           pe2 == generate_pseudoexperiment(m, Delta, run2.pyrand, run2.np_rng)
           trial == [m |-> m, Delta |-> Delta, pe |-> pe.ret, gen_exc |-> pe.exc,
                     exc |-> pe.exc, draws |-> pe.draws,
                     status |-> IF pe.exc = "" THEN "fitting" ELSE "raised"]
       IN /\ pyrand' = pe.pyrand
          /\ np_rng' = pe.np_rng
          /\ run2' = [pyrand |-> pe2.pyrand, np_rng |-> pe2.np_rng,
                      spectra |-> Append(run2.spectra,
                                         [ret |-> pe2.ret, exc |-> pe2.exc])]
          /\ trials' = Append(trials, trial)
          /\ IF pe.exc = ""
             THEN /\ fit_given_data(pe.ret)
                  /\ pc' = "one_fit"
                  /\ exc' = exc
             ELSE /\ pc' = "crashed"
                  /\ exc' = pe.exc
                  /\ UNCHANGED <<minimizer, fitlog>>
    /\ UNCHANGED <<best_fit, p_fit, stdout, one_fit, objVars, meanVars>>

Next ==
    \/ MainBestFit
    \/ MainAssert
    \/ MainFitAtLocation
    \/ MainPrint
    \/ \E pt \in TrialPoints \cup {initial_guess} : Evaluate(pt)
    \/ \E success \in BOOLEAN : Return(success)
    \/ \E loc \in Locations : generate_one_fit(loc[1], loc[2])

Spec == Init /\ [][Next]_vars

(***************************************************************************)
(* The likelihood called directly by an importer of the module: it builds  *)
(* a LogLike object and calls its two methods.                             *)
(***************************************************************************)
\* The datasets: the observed spectrum, one shorter and one longer than N_b.
Datasets ==
    { OBS,
      SubSeq(OBS, 1, ShortLen),
      OBS \o [i \in 1..ExtraLen |-> i] }

\* The nuisance parameters (a, b, c, d) the methods are called with: two
\* valid points, one with b = 0 and one whose late bins have negative means.
NuisancePoints ==
    { <<F(100), F(50), F(30), F(10)>>,
      <<A, B, C, D>>,
      <<F(100), F(0), F(30), F(10)>>,
      <<F(100), F(50), F(30), F(-10)>> }

\* The physics parameters (mass, delta) they are called with.
PhysicsPoints == { <<F(80), F(20)>>, <<F(120), F(20)>> }

\* obj = LogLike(data) or LogLike(data, mass, delta)
NewLogLike(data, mass, delta) ==
    /\ pc = "idle"
    /\ obj' = LogLike(data, mass, delta)
    /\ rcall' = NoCall
    /\ fcall' = NoCall
    /\ UNCHANGED <<progVars, meanVars>>

\* obj.restricted(a, b, c, d)
CallRestricted(a, b, c, d) ==
    /\ pc = "idle"
    /\ obj.data # <<>>
    /\ rcall' = [called |-> TRUE, self |-> obj, args |-> <<a, b, c, d>>,
                 ret |-> restricted(obj, a, b, c, d)]
    /\ UNCHANGED <<progVars, obj, fcall, meanVars>>

\* LogLike(obj.data).negative_log_likelihood(a, b, c, d, mass, delta)
CallNegativeLogLikelihood(a, b, c, d, mass, delta) ==
    /\ pc = "idle"
    /\ obj.data # <<>>
    /\ LET self == LogLike(obj.data, None, None) IN
       fcall' = [called |-> TRUE, self |-> self, args |-> <<a, b, c, d>>,
                 mass |-> mass, delta |-> delta,
                 ret |-> negative_log_likelihood(self, a, b, c, d, mass, delta)]
    /\ UNCHANGED <<progVars, obj, rcall, meanVars>>

ObjNext ==
    \/ \E data \in Datasets : NewLogLike(data, None, None)
    \/ \E data \in Datasets, loc \in PhysicsPoints : NewLogLike(data, loc[1], loc[2])
    \/ \E x \in NuisancePoints : CallRestricted(x[1], x[2], x[3], x[4])
    \/ \E x \in NuisancePoints, loc \in PhysicsPoints :
           CallNegativeLogLikelihood(x[1], x[2], x[3], x[4], loc[1], loc[2])

ObjSpec == Init /\ [][ObjNext]_vars

(***************************************************************************)
(* poisson_mean_model called directly, for every bin.                      *)
(***************************************************************************)
\* The arguments (a, b, c, d, mass, delta).
MeanArgs ==
    { <<a, b, c, d, mass, delta>> :
        a \in {F(-100), F(0), F(10), A},
        b \in {F(0), B, F(100)},
        c \in {F(0), C},
        d \in {F(0), D},
        mass \in {F(80)},
        delta \in {F(0), F(5), F(20)} }

MeanInit == InitProg("idle") /\ InitObj /\ margs \in MeanArgs /\ means = <<>>

\* [poisson_mean_model(a, b, c, d, mass, delta, k) for k in range(1, N_b + 1)]
EvalMeans ==
    /\ means = <<>>
    /\ means' = [k \in 1..N_b |->
                    poisson_mean_model(margs[1], margs[2], margs[3], margs[4],
                                       margs[5], margs[6], k)]
    /\ UNCHANGED <<progVars, objVars, margs>>

MeanNext == EvalMeans

MeanSpec == MeanInit /\ [][MeanNext]_vars

(***************************************************************************)
(* The claims.                                                             *)
(***************************************************************************)
\* The bins 1..n summed one by one: 0 + term_1 + ... + term_n.
RECURSIVE FirstBinsSum(_, _, _)
FirstBinsSum(mus, data, n) ==
    IF n = 0 THEN PyInt(0)
    ELSE Add(FirstBinsSum(mus, data, n - 1), BinTerm(mus[n], data[n]))

\* What a method returns on a dataset of any length: the exception of the
\* first bin mean that raised, else the sum over the first min(L, N_b) bins.
ExpectedOverBins(mus, data) ==
    IF FirstError(mus) # None THEN FirstError(mus)
    ELSE FirstBinsSum(mus, data, Min(Len(data), N_b))

MeansAt(x, mass, delta) ==
    [k \in 1..N_b |-> poisson_mean_model(x[1], x[2], x[3], x[4], mass, delta, k)]

\* C2: restricted(a, b, c, d) on LogLike(data, mass, delta) returns what
\* negative_log_likelihood(a, b, c, d, mass, delta) returns on LogLike(data):
\* the same value, or the same exception.
C2_RestrictedIsPinnedFull ==
    (/\ rcall.called
     /\ fcall.called
     /\ rcall.self.data = fcall.self.data
     /\ rcall.args = fcall.args
     /\ rcall.self.mass = fcall.mass
     /\ rcall.self.delta = fcall.delta)
    => rcall.ret = fcall.ret

\* Both methods were called at the same point of the valid domain, on the
\* observed spectrum, and returned a finite value.
C2_Witness ==
    /\ rcall.called
    /\ fcall.called
    /\ rcall.self.data = OBS
    /\ rcall.args = fcall.args
    /\ rcall.self.mass = fcall.mass
    /\ rcall.self.delta = fcall.delta
    /\ IsFinite(rcall.ret)
    /\ rcall.ret.v > 0

\* C10: on a dataset of length L either method returns the sum of the terms
\* of the first min(L, N_b) bins, count k paired with bin k; a length other
\* than N_b raises nothing.
C10_SumOverCommonBins ==
    /\ rcall.called =>
          rcall.ret = ExpectedOverBins(
                          MeansAt(rcall.args, rcall.self.mass, rcall.self.delta),
                          rcall.self.data)
    /\ fcall.called =>
          fcall.ret = ExpectedOverBins(
                          MeansAt(fcall.args, fcall.mass, fcall.delta),
                          fcall.self.data)

\* Both methods returned a finite value on a dataset shorter than N_b.
C10_Witness ==
    /\ rcall.called
    /\ fcall.called
    /\ Len(rcall.self.data) = ShortLen
    /\ ~IsNone(rcall.self.mass)
    /\ IsFinite(rcall.ret)
    /\ IsFinite(fcall.ret)

\* The call of poisson_mean_model the claim C8 is about: c = 0, b > 0 and
\* delta # 0, evaluated for every bin.
PureBackground ==
    /\ means # <<>>
    /\ margs[3].v = 0
    /\ margs[2].v > 0
    /\ margs[6].v # 0

\* C8 as stated: with c = 0, b > 0 and delta # 0 the mean strictly decreases
\* in the bin index.
C8_StrictlyDecreasing ==
    PureBackground => \A k \in 1..(N_b - 1) : means[k + 1].v < means[k].v

\* C8 amended: with c = 0, b > 0 and delta # 0 the mean never increases in
\* the bin index when a > 0, is the same in every bin when a = 0, and never
\* decreases when a < 0.
C8_MonotoneBySignOfA ==
    PureBackground =>
        \A k \in 1..(N_b - 1) :
            /\ IsFinite(means[k]) /\ IsFinite(means[k + 1])
            /\ margs[1].v > 0 => means[k + 1].v <= means[k].v
            /\ margs[1].v = 0 => means[k + 1].v = means[k].v
            /\ margs[1].v < 0 => means[k + 1].v >= means[k].v

\* A pure background with a > 0 was evaluated, and its mean decreases from
\* every bin to the next.
C8_Witness ==
    /\ PureBackground
    /\ margs[1].v > 0
    /\ \A k \in 1..(N_b - 1) : means[k + 1].v < means[k].v

\* Within the model's resolution a pure background with a > 0 is strictly
\* decreasing: the plateaus of C8 come from a <= 0 alone.
StrictWithinResolution ==
    (PureBackground /\ margs[1].v > 0) =>
        \A k \in 1..(N_b - 1) : means[k + 1].v < means[k].v

\* C3: a second run from the same seeds that makes the same
\* generate_pseudoexperiment calls produces the same spectra (or the same
\* exceptions), call by call, and leaves both streams in the same state,
\* whatever fits the first run makes in between.
C3_Reproducible ==
    /\ run2.pyrand = pyrand
    /\ run2.np_rng = np_rng
    /\ Len(run2.spectra) = Len(trials)
    /\ \A i \in 1..Len(trials) :
          /\ run2.spectra[i].ret = trials[i].pe
          /\ run2.spectra[i].exc = trials[i].gen_exc

\* Two pseudoexperiments were generated and fitted, the minimizer having
\* evaluated the objective between the two calls, and the spectra differ.
C3_Witness ==
    /\ Len(trials) = 2
    /\ trials[1].status = "returned"
    /\ trials[2].status = "returned"
    /\ Len(trials[1].pe) = N_b
    /\ trials[1].pe # trials[2].pe

\* The point x the minimizer evaluated last lies outside the valid domain:
\* b = 0, delta = 0, or some bin mean that is not a positive number.
OutsideDomain(loglike, restr, x) ==
    LET mass == IF restr THEN loglike.mass ELSE x[5]
        delta == IF restr THEN loglike.delta ELSE x[6]
    IN \/ IsZero(x[2])
       \/ IsZero(delta)
       \/ \E k \in 1..N_b :
             LET mu == poisson_mean_model(x[1], x[2], x[3], x[4], mass, delta, k)
             IN ~IsFinite(mu) \/ mu.v <= 0

\* C4: an evaluation of the objective outside the valid domain during a fit
\* gives the minimizer a finite value: no exception, no nan, no infinity.
C4_FiniteOutsideDomain ==
    (/\ minimizer.nfev >= 1
     /\ OutsideDomain(minimizer.loglike, minimizer.restricted, minimizer.last))
    => IsFinite(minimizer.lastfun)

\* C5: a generate_pseudoexperiment call that met a non-positive bin mean is
\* handled inside its trial: generate_one_fit does not end in the exception,
\* and the run goes on.
C5_DegeneracyHandled ==
    \A i \in 1..Len(trials) :
        trials[i].gen_exc # "" =>
            /\ trials[i].status # "raised"
            /\ pc # "crashed"

\* Every position of __main__ from the assertion's success on.
AfterAssert == {"located", "p_fit", "print", "exit"}

\* C6: the restricted fit at (8.0, 2.0) is started, computed and printed only
\* after the global fit of OBS reported success; a global fit that reported
\* failure ends the run with the AssertionError.
C6_RestrictedOnlyAfterSuccess ==
    /\ (\/ pc \in AfterAssert
        \/ p_fit # NoResult
        \/ stdout # <<>>
        \/ \E i \in 1..Len(fitlog) : fitlog[i].restricted)
       => best_fit.success
    /\ (best_fit.nfev >= 1 /\ ~best_fit.success)
       => \/ pc = "assert"
          \/ pc = "failed" /\ exc = "AssertionError"

\* The global fit returned without success and the run ended there.
C6_Witness ==
    /\ best_fit.nfev >= 1
    /\ ~best_fit.success
    /\ pc = "failed"
    /\ exc = "AssertionError"
    /\ p_fit = NoResult

\* C7: a trial that returned has fitted the spectrum it generated twice: the
\* global fit, and the restricted fit pinned at the trial's (mass, delta).
C7_BothFitsPerTrial ==
    \A i \in 1..Len(trials) :
        trials[i].status = "returned" =>
            /\ \E j \in 1..Len(fitlog) :
                  ~fitlog[j].restricted /\ fitlog[j].data = trials[i].pe
            /\ \E j \in 1..Len(fitlog) :
                  /\ fitlog[j].restricted
                  /\ fitlog[j].data = trials[i].pe
                  /\ fitlog[j].mass = trials[i].m
                  /\ fitlog[j].delta = trials[i].Delta

\* The draws of a call that takes the four Gaussian draws for a, b, c, d and
\* then one Poisson draw for each bin 1..N_b.
FullDraws ==
    <<Draw("gauss", "A"), Draw("gauss", "B"), Draw("gauss", "C"),
      Draw("gauss", "D")>> \o [k \in 1..N_b |-> Draw("poisson", k)]

\* C9: every generate_pseudoexperiment call takes exactly these draws, in
\* this order, and returns N_b counts.
C9_DrawsPerCall ==
    \A i \in 1..Len(trials) :
        /\ trials[i].draws = FullDraws
        /\ Len(trials[i].pe) = N_b

====
